---- MODULE Spec2Model ----
(***************************************************************************)
(* django-render-comments: the template preprocessor that rewrites Django  *)
(* comments ({# ... #} and {% comment %}...{% endcomment %}) into HTML      *)
(* comments.  Texts are sequences of one-character strings, so that the    *)
(* regular expressions, str.replace, str.strip and the slices of           *)
(* preprocessor.py are computed character by character.  The loaders of    *)
(* loaders/filesystem.py and loaders/app_directories.py call the           *)
(* preprocessor from get_contents, depending on two settings.              *)
(***************************************************************************)
EXTENDS Naturals, Sequences, FiniteSets

VARIABLES
    source, result, pc,        \* one call of preprocess_template
    text, escaped, epc,        \* one call of escape_html_comment
    settings, origin, loader,  \* django.conf.settings, the file, the loader
    contents, raised,          \* what the last get_contents returned, raised
    transforms, nloads, lpc,   \* calls of preprocess_template, of get_contents
    inv                        \* the locals of concurrent invocations

tvars == <<source, result, pc>>
evars == <<text, escaped, epc>>
lvars == <<settings, origin, loader, contents, raised, transforms, nloads, lpc>>
vars == <<source, result, pc, text, escaped, epc, settings, origin, loader,
          contents, raised, transforms, nloads, lpc, inv>>

(***************************************************************************)
(* Bounds of the model.                                                    *)
(***************************************************************************)
\* longest run of spaces used as padding inside the delimiters
MaxPad == 2
\* longest run of dashes placed inside a comment body or a note
MaxDashes == 4
\* longest text handed to escape_html_comment on its own
MaxEscLen == 5
\* largest number of fragments put together into a free-form source
MaxFrags == 3
\* largest number of comments in a source of segments and comments
MaxComments == 2
\* largest number of get_contents calls on one loader
MaxLoads == 2
\* number of concurrent invocations of preprocess_template
NThreads == 2

(***************************************************************************)
(* Literals of the source, one character per element.                      *)
(***************************************************************************)
\* whitespace characters, matched by the patterns and removed by str.strip / str.lstrip
WS == {" ", "\n"}

\* the character class ["'] of BLOCK_COMMENT_PATTERN
QUOTES == {"\"", "'"}

\* match.group(1) of a block match whose optional group did not take part
None == <<"None">>

TAG_OPEN == <<"{", "%">>

TAG_CLOSE == <<"%", "}">>

INLINE_OPEN == <<"{", "#">>

INLINE_CLOSE == <<"#", "}">>

W_COMMENT == <<"c", "o", "m", "m", "e", "n", "t">>

W_ENDCOMMENT == <<"e", "n", "d">> \o W_COMMENT

W_VERBATIM == <<"v", "e", "r", "b", "a", "t", "i", "m">>

HIDE_TOKEN == <<"!", "h", "i", "d", "e">>

RENDER_TOKEN == <<"!", "r", "e", "n", "d", "e", "r">>

DASHDASH == <<"-", "-">>

DASH_SP_DASH == <<"-", " ", "-">>

HTML_OPEN == <<"<", "!", "-", "-", " ">>

HTML_CLOSE == <<" ", "-", "-", ">">>

VERBATIM_TAG == TAG_OPEN \o <<" ">> \o W_VERBATIM \o <<" ">> \o TAG_CLOSE

ENDVERBATIM_TAG ==
    TAG_OPEN \o <<" ", "e", "n", "d">> \o W_VERBATIM \o <<" ">> \o TAG_CLOSE

(***************************************************************************)
(* String primitives of Python used by the preprocessor.                   *)
(***************************************************************************)
\* s[i:i+len(w)] == w, with i counted from 1
IsAt(s, i, w) ==
    /\ i >= 1
    /\ i + Len(w) <= Len(s) + 1
    /\ \A k \in 1..Len(w) : s[i + k - 1] = w[k]

\* str.startswith
startswith(s, w) == IsAt(s, 1, w)

\* the operator "w in s" on strings
contains(s, w) == \E i \in 1..Len(s) : IsAt(s, i, w)

\* s[n:]
SliceFrom(s, n) == SubSeq(s, n + 1, Len(s))

RECURSIVE SkipWs(_, _)
\* a greedy whitespace run started at i: the first index at or after i that holds no
\* whitespace character (Len(s) + 1 when the text ends first)
SkipWs(s, i) ==
    IF i <= Len(s) /\ s[i] \in WS THEN SkipWs(s, i + 1) ELSE i

RECURSIVE SkipWsBack(_, _)
\* the last index at or before i that holds no whitespace character
SkipWsBack(s, i) ==
    IF i >= 1 /\ s[i] \in WS THEN SkipWsBack(s, i - 1) ELSE i

\* str.lstrip()
lstrip(s) == SubSeq(s, SkipWs(s, 1), Len(s))

\* str.strip()
strip(s) == SubSeq(s, SkipWs(s, 1), SkipWsBack(s, Len(s)))

RECURSIVE ReplaceFrom_first(_, _)
\* a replacement of the first occurrence only, as str.replace with count 1
ReplaceFrom_first(s, i) ==
    IF i > Len(s) THEN <<>>
    ELSE IF IsAt(s, i, DASHDASH)
         THEN DASH_SP_DASH \o SubSeq(s, i + 2, Len(s))
         ELSE <<s[i]>> \o ReplaceFrom_first(s, i + 1)

RECURSIVE ReplaceFrom_rescan(_, _)
\* a replacement whose scan resumes at the second dash of each occurrence,
\* so that overlapping occurrences are all replaced
ReplaceFrom_rescan(s, i) ==
    IF i > Len(s) THEN <<>>
    ELSE IF IsAt(s, i, DASHDASH)
         THEN <<"-", " ">> \o ReplaceFrom_rescan(s, i + 1)
         ELSE <<s[i]>> \o ReplaceFrom_rescan(s, i + 1)

RECURSIVE ReplaceFrom(_, _)
\* str.replace("--", "- -") from index i on: occurrences are found left to
\* right and the scan resumes after each replaced occurrence
ReplaceFrom(s, i) ==
    IF i > Len(s) THEN <<>>
    ELSE IF IsAt(s, i, DASHDASH)
         THEN DASH_SP_DASH \o ReplaceFrom(s, i + 2)
         ELSE <<s[i]>> \o ReplaceFrom(s, i + 1)

escape_html_comment(t) == ReplaceFrom(t, 1)

(***************************************************************************)
(* INLINE_COMMENT_PATTERN: "{#", greedy whitespace, a lazy group of any    *)
(* characters (DOTALL), greedy whitespace, "#}".                           *)
(***************************************************************************)
NoMatch == [found |-> FALSE]

RECURSIVE LazyInline(_, _)
\* the lazy group of the inline pattern grown from index e: the first e at
\* which whitespace and "#}" follow; 0 when the text ends first
LazyInline(s, e) ==
    IF e > Len(s) THEN 0
    ELSE IF IsAt(s, SkipWs(s, e), INLINE_CLOSE) THEN e
    ELSE LazyInline(s, e + 1)

\* InlineMatchAt with the closing marker allowed to share the "#" of the
\* opening marker, so that "{#}" is taken for a comment
InlineMatchAt_overlap(s, i) ==
    IF ~IsAt(s, i, INLINE_OPEN) THEN NoMatch
    ELSE LET a == SkipWs(s, i + 2)
             e == LazyInline(s, i + 1)
         IN IF e = 0 THEN NoMatch
            ELSE [found |-> TRUE, start |-> i,
                  stop |-> SkipWs(s, e) + 2,
                  g1 |-> SubSeq(s, a, e - 1)]

\* a match of the inline pattern that starts exactly at i
InlineMatchAt(s, i) ==
    IF ~IsAt(s, i, INLINE_OPEN) THEN NoMatch
    ELSE LET a == SkipWs(s, i + 2)
             e == LazyInline(s, a)
         IN IF e = 0 THEN NoMatch
            ELSE [found |-> TRUE, start |-> i,
                  stop |-> SkipWs(s, e) + 2,
                  g1 |-> SubSeq(s, a, e - 1)]

\* pattern.match in place of pattern.search: only a match that starts at
\* pos itself is found
InlineSearch_anchored(s, pos) ==
    IF pos > Len(s) THEN NoMatch ELSE InlineMatchAt(s, pos)

RECURSIVE InlineSearch(_, _)
\* pattern.search from index pos: the leftmost match
InlineSearch(s, pos) ==
    IF pos > Len(s) THEN NoMatch
    ELSE IF InlineMatchAt(s, pos).found THEN InlineMatchAt(s, pos)
    ELSE InlineSearch(s, pos + 1)

(***************************************************************************)
(* BLOCK_COMMENT_PATTERN: the opening tag "{%", whitespace, "comment", an  *)
(* optional group (whitespace, a quote, the note of non-quote characters,  *)
(* a quote), whitespace, "%}"; a lazy group of any characters (DOTALL);    *)
(* the closing tag "{%", whitespace, "endcomment", whitespace, "%}".       *)
(***************************************************************************)
RECURSIVE SkipNote(_, _)
\* the greedy run of non-quote characters started at i
SkipNote(s, i) ==
    IF i <= Len(s) /\ s[i] \notin QUOTES THEN SkipNote(s, i + 1) ELSE i

\* the opening tag at i, with the optional quoted note tried first
OpenerAt(s, i) ==
    LET a == SkipWs(s, i + 2)
        b == a + Len(W_COMMENT)
        c == SkipWs(s, b)
        d == SkipNote(s, c + 1)
        e == SkipWs(s, d + 1)
        quoted == c > b /\ c <= Len(s) /\ s[c] \in QUOTES /\ d <= Len(s)
    IN IF ~(IsAt(s, i, TAG_OPEN) /\ IsAt(s, a, W_COMMENT)) THEN NoMatch
       ELSE IF quoted /\ IsAt(s, e, TAG_CLOSE)
            THEN [found |-> TRUE, note |-> SubSeq(s, c + 1, d - 1),
                  stop |-> e + 2]
       ELSE IF IsAt(s, c, TAG_CLOSE)
            THEN [found |-> TRUE, note |-> None, stop |-> c + 2]
       ELSE NoMatch

\* the closing tag at j; the index after it, or 0
CloserAt(s, j) ==
    LET a == SkipWs(s, j + 2)
        b == SkipWs(s, a + Len(W_ENDCOMMENT))
    IN IF IsAt(s, j, TAG_OPEN) /\ IsAt(s, a, W_ENDCOMMENT)
          /\ IsAt(s, b, TAG_CLOSE)
       THEN b + 2 ELSE 0

RECURSIVE LazyBlock_last(_, _)
\* a greedy group in place of the lazy one: the last index from j on at
\* which the closing tag matches
LazyBlock_last(s, j) ==
    IF j > Len(s) THEN 0
    ELSE LET r == LazyBlock_last(s, j + 1)
         IN IF r # 0 THEN r
            ELSE IF CloserAt(s, j) # 0 THEN j ELSE 0

RECURSIVE LazyBlock(_, _)
\* the lazy group of the block pattern grown from index j: the first j at
\* which the closing tag matches; 0 when the text ends first
LazyBlock(s, j) ==
    IF j > Len(s) THEN 0
    ELSE IF CloserAt(s, j) # 0 THEN j
    ELSE LazyBlock(s, j + 1)

\* a block pattern whose closing tag may be missing: the block then runs
\* to the end of the text
BlockMatchAt_to_end(s, i) ==
    LET o == OpenerAt(s, i)
        j == LazyBlock(s, o.stop)
    IN IF ~o.found THEN NoMatch
       ELSE IF j = 0
            THEN [found |-> TRUE, start |-> i, stop |-> Len(s) + 1,
                  g1 |-> o.note, g2 |-> SubSeq(s, o.stop, Len(s))]
       ELSE [found |-> TRUE, start |-> i, stop |-> CloserAt(s, j),
             g1 |-> o.note, g2 |-> SubSeq(s, o.stop, j - 1)]

\* a match of the block pattern that starts exactly at i
BlockMatchAt(s, i) ==
    LET o == OpenerAt(s, i)
        j == LazyBlock(s, o.stop)
    IN IF ~o.found THEN NoMatch
       ELSE IF j = 0 THEN NoMatch
       ELSE [found |-> TRUE, start |-> i, stop |-> CloserAt(s, j),
             g1 |-> o.note, g2 |-> SubSeq(s, o.stop, j - 1)]

RECURSIVE BlockSearch(_, _)
\* pattern.search from index pos: the leftmost match
BlockSearch(s, pos) ==
    IF pos > Len(s) THEN NoMatch
    ELSE IF BlockMatchAt(s, pos).found THEN BlockMatchAt(s, pos)
    ELSE BlockSearch(s, pos + 1)

(***************************************************************************)
(* The converters.                                                         *)
(***************************************************************************)
\* a truth value that takes every text, the empty one too, for true
Truthy_present(x) == x # None

\* the truth value Python gives a note: None and "" are false
Truthy(x) == x # None /\ x # <<>>

\* _convert_inline_comment with the default branch emitting the content
\* without escaping it
_convert_inline_comment_raw(g0, g1) ==
    LET content == g1
        stripped == lstrip(content)
        rest == lstrip(SliceFrom(stripped, 7))
    IN IF startswith(stripped, HIDE_TOKEN) THEN g0
       ELSE IF startswith(stripped, RENDER_TOKEN)
               /\ startswith(rest, HIDE_TOKEN) THEN g0
       ELSE IF startswith(stripped, RENDER_TOKEN)
            THEN HTML_OPEN \o escape_html_comment(rest) \o HTML_CLOSE
       ELSE VERBATIM_TAG \o HTML_OPEN \o content
                \o HTML_CLOSE \o ENDVERBATIM_TAG

\* _convert_inline_comment without the test for !hide after !render
_convert_inline_comment_render_first(g0, g1) ==
    LET content == g1
        stripped == lstrip(content)
        rest == lstrip(SliceFrom(stripped, 7))
    IN IF startswith(stripped, HIDE_TOKEN) THEN g0
       ELSE IF startswith(stripped, RENDER_TOKEN)
            THEN HTML_OPEN \o escape_html_comment(rest) \o HTML_CLOSE
       ELSE VERBATIM_TAG \o HTML_OPEN \o escape_html_comment(content)
                \o HTML_CLOSE \o ENDVERBATIM_TAG

\* _convert_inline_comment that keeps the whitespace after the !render
\* marker it removes
_convert_inline_comment_keep_ws(g0, g1) ==
    LET content == g1
        stripped == lstrip(content)
        rest == lstrip(SliceFrom(stripped, 7))
    IN IF startswith(stripped, HIDE_TOKEN) THEN g0
       ELSE IF startswith(stripped, RENDER_TOKEN)
               /\ startswith(rest, HIDE_TOKEN) THEN g0
       ELSE IF startswith(stripped, RENDER_TOKEN)
            THEN HTML_OPEN \o escape_html_comment(SliceFrom(stripped, 7))
                     \o HTML_CLOSE
       ELSE VERBATIM_TAG \o HTML_OPEN \o escape_html_comment(content)
                \o HTML_CLOSE \o ENDVERBATIM_TAG

\* _convert_inline_comment that returns a hidden comment without its !hide
\* marker, as a plain inline comment
_convert_inline_comment_unmark(g0, g1) ==
    LET content == g1
        stripped == lstrip(content)
        rest == lstrip(SliceFrom(stripped, 7))
    IN IF startswith(stripped, HIDE_TOKEN)
       THEN INLINE_OPEN \o SliceFrom(stripped, 5) \o INLINE_CLOSE
       ELSE IF startswith(stripped, RENDER_TOKEN)
               /\ startswith(rest, HIDE_TOKEN) THEN g0
       ELSE IF startswith(stripped, RENDER_TOKEN)
            THEN HTML_OPEN \o escape_html_comment(rest) \o HTML_CLOSE
       ELSE VERBATIM_TAG \o HTML_OPEN \o escape_html_comment(content)
                \o HTML_CLOSE \o ENDVERBATIM_TAG

\* _convert_inline_comment(match), match.group(0) = g0, match.group(1) = g1
_convert_inline_comment(g0, g1) ==
    LET content == g1
        stripped == lstrip(content)
        rest == lstrip(SliceFrom(stripped, 7))
    IN IF startswith(stripped, HIDE_TOKEN) THEN g0
       ELSE IF startswith(stripped, RENDER_TOKEN)
               /\ startswith(rest, HIDE_TOKEN) THEN g0
       ELSE IF startswith(stripped, RENDER_TOKEN)
            THEN HTML_OPEN \o escape_html_comment(rest) \o HTML_CLOSE
       ELSE VERBATIM_TAG \o HTML_OPEN \o escape_html_comment(content)
                \o HTML_CLOSE \o ENDVERBATIM_TAG

\* _convert_block_comment that emits the content without trimming it
_convert_block_comment_untrimmed(g0, note, content) ==
    LET eval_mode == Truthy(note) /\ startswith(note, RENDER_TOKEN)
        remainder == lstrip(SliceFrom(note, 7))
        display_note == IF eval_mode
                        THEN (IF remainder = <<>> THEN None ELSE remainder)
                        ELSE note
        escaped_content == escape_html_comment(content)
        html_comment ==
            IF Truthy(display_note)
            THEN HTML_OPEN \o <<"[">> \o escape_html_comment(display_note)
                     \o <<"]", " ">> \o escaped_content \o HTML_CLOSE
            ELSE HTML_OPEN \o escaped_content \o HTML_CLOSE
    IN IF Truthy(note) /\ startswith(note, HIDE_TOKEN) THEN g0
       ELSE IF Truthy(note) /\ startswith(note, RENDER_TOKEN)
               /\ contains(note, HIDE_TOKEN) THEN g0
       ELSE IF eval_mode THEN html_comment
       ELSE VERBATIM_TAG \o html_comment \o ENDVERBATIM_TAG

\* _convert_block_comment that shows the whole annotation of a render
\* block, the !render marker included
_convert_block_comment_keep_marker(g0, note, content) ==
    LET eval_mode == Truthy(note) /\ startswith(note, RENDER_TOKEN)
        display_note == note
        escaped_content == escape_html_comment(strip(content))
        html_comment ==
            IF Truthy(display_note)
            THEN HTML_OPEN \o <<"[">> \o escape_html_comment(display_note)
                     \o <<"]", " ">> \o escaped_content \o HTML_CLOSE
            ELSE HTML_OPEN \o escaped_content \o HTML_CLOSE
    IN IF Truthy(note) /\ startswith(note, HIDE_TOKEN) THEN g0
       ELSE IF Truthy(note) /\ startswith(note, RENDER_TOKEN)
               /\ contains(note, HIDE_TOKEN) THEN g0
       ELSE IF eval_mode THEN html_comment
       ELSE VERBATIM_TAG \o html_comment \o ENDVERBATIM_TAG

\* _convert_block_comment that hides a render block only when !hide comes
\* right after !render, as the inline conversion does
_convert_block_comment_adjacent_hide(g0, note, content) ==
    LET eval_mode == Truthy(note) /\ startswith(note, RENDER_TOKEN)
        remainder == lstrip(SliceFrom(note, 7))
        display_note == IF eval_mode
                        THEN (IF remainder = <<>> THEN None ELSE remainder)
                        ELSE note
        escaped_content == escape_html_comment(strip(content))
        html_comment ==
            IF Truthy(display_note)
            THEN HTML_OPEN \o <<"[">> \o escape_html_comment(display_note)
                     \o <<"]", " ">> \o escaped_content \o HTML_CLOSE
            ELSE HTML_OPEN \o escaped_content \o HTML_CLOSE
    IN IF Truthy(note) /\ startswith(note, HIDE_TOKEN) THEN g0
       ELSE IF Truthy(note) /\ startswith(note, RENDER_TOKEN)
               /\ startswith(remainder, HIDE_TOKEN) THEN g0
       ELSE IF eval_mode THEN html_comment
       ELSE VERBATIM_TAG \o html_comment \o ENDVERBATIM_TAG

\* _convert_block_comment that looks for the markers in the trimmed
\* annotation
_convert_block_comment_trimmed_note(g0, note, content) ==
    LET tnote == IF Truthy(note) THEN strip(note) ELSE note
        eval_mode == Truthy(tnote) /\ startswith(tnote, RENDER_TOKEN)
        remainder == lstrip(SliceFrom(tnote, 7))
        display_note == IF eval_mode
                        THEN (IF remainder = <<>> THEN None ELSE remainder)
                        ELSE note
        escaped_content == escape_html_comment(strip(content))
        html_comment ==
            IF Truthy(display_note)
            THEN HTML_OPEN \o <<"[">> \o escape_html_comment(display_note)
                     \o <<"]", " ">> \o escaped_content \o HTML_CLOSE
            ELSE HTML_OPEN \o escaped_content \o HTML_CLOSE
    IN IF Truthy(tnote) /\ startswith(tnote, HIDE_TOKEN) THEN g0
       ELSE IF Truthy(tnote) /\ startswith(tnote, RENDER_TOKEN)
               /\ contains(tnote, HIDE_TOKEN) THEN g0
       ELSE IF eval_mode THEN html_comment
       ELSE VERBATIM_TAG \o html_comment \o ENDVERBATIM_TAG

\* _convert_block_comment(match), match.group(0) = g0, group(1) = note,
\* group(2) = content
_convert_block_comment(g0, note, content) ==
    LET eval_mode == Truthy(note) /\ startswith(note, RENDER_TOKEN)
        remainder == lstrip(SliceFrom(note, 7))
        display_note == IF eval_mode
                        THEN (IF remainder = <<>> THEN None ELSE remainder)
                        ELSE note
        escaped_content == escape_html_comment(strip(content))
        html_comment ==
            IF Truthy(display_note)
            THEN HTML_OPEN \o <<"[">> \o escape_html_comment(display_note)
                     \o <<"]", " ">> \o escaped_content \o HTML_CLOSE
            ELSE HTML_OPEN \o escaped_content \o HTML_CLOSE
    IN IF Truthy(note) /\ startswith(note, HIDE_TOKEN) THEN g0
       ELSE IF Truthy(note) /\ startswith(note, RENDER_TOKEN)
               /\ contains(note, HIDE_TOKEN) THEN g0
       ELSE IF eval_mode THEN html_comment
       ELSE VERBATIM_TAG \o html_comment \o ENDVERBATIM_TAG

RECURSIVE BlockSub_rescan(_, _)
\* a block substitution that looks for matches in the text it has put out:
\* after a replacement the scan resumes at the second character of the
\* replacement
BlockSub_rescan(s, pos) ==
    LET m == BlockSearch(s, pos)
        t == _convert_block_comment(SubSeq(s, m.start, m.stop - 1),
                                    m.g1, m.g2)
             \o SubSeq(s, m.stop, Len(s))
    IN IF ~m.found THEN SubSeq(s, pos, Len(s))
       ELSE SubSeq(s, pos, m.start - 1) \o <<t[1]>> \o BlockSub_rescan(t, 2)

\* the block substitution with count = 1: only the leftmost match is
\* replaced
BlockSub_once(s, pos) ==
    LET m == BlockSearch(s, pos)
    IN IF ~m.found THEN SubSeq(s, pos, Len(s))
       ELSE SubSeq(s, pos, m.start - 1)
            \o _convert_block_comment(SubSeq(s, m.start, m.stop - 1),
                                      m.g1, m.g2)
            \o SubSeq(s, m.stop, Len(s))

RECURSIVE BlockSub(_, _)
\* BLOCK_COMMENT_PATTERN.sub(_convert_block_comment, s), from index pos on:
\* the text before the leftmost match, the replacement of the match, and the
\* substitution of what follows the match
BlockSub(s, pos) ==
    LET m == BlockSearch(s, pos)
    IN IF ~m.found THEN SubSeq(s, pos, Len(s))
       ELSE SubSeq(s, pos, m.start - 1)
            \o _convert_block_comment(SubSeq(s, m.start, m.stop - 1),
                                      m.g1, m.g2)
            \o BlockSub(s, m.stop)

\* an inline substitution that leaves the text as it is
InlineSub_untouched(s, pos) == SubSeq(s, pos, Len(s))

RECURSIVE InlineSub(_, _)
\* INLINE_COMMENT_PATTERN.sub(_convert_inline_comment, s), from index pos on
InlineSub(s, pos) ==
    LET m == InlineSearch(s, pos)
    IN IF ~m.found THEN SubSeq(s, pos, Len(s))
       ELSE SubSeq(s, pos, m.start - 1)
            \o _convert_inline_comment(SubSeq(s, m.start, m.stop - 1), m.g1)
            \o InlineSub(s, m.stop)

RECURSIVE BlockSpans(_, _)
\* the matches that BLOCK_COMMENT_PATTERN.sub replaces in s from index pos
\* on, in the order it finds them
BlockSpans(s, pos) ==
    LET m == BlockSearch(s, pos)
    IN IF ~m.found THEN <<>>
       ELSE <<[start |-> m.start, stop |-> m.stop]>> \o BlockSpans(s, m.stop)

RECURSIVE InlineSpans(_, _)
\* the matches that INLINE_COMMENT_PATTERN.sub replaces in s from index pos
\* on, in the order it finds them
InlineSpans(s, pos) ==
    LET m == InlineSearch(s, pos)
    IN IF ~m.found THEN <<>>
       ELSE <<[start |-> m.start, stop |-> m.stop]>> \o InlineSpans(s, m.stop)

\* preprocess_template(source) as a function
preprocess_template(s) == InlineSub(BlockSub(s, 1), 1)

(***************************************************************************)
(* The inputs: template sources handed to preprocess_template and texts    *)
(* handed to escape_html_comment.                                          *)
(***************************************************************************)
Spaces(k) == [i \in 1..k |-> " "]

Dashes(k) == [i \in 1..k |-> "-"]

Pads == {Spaces(k) : k \in 0..MaxPad}

SP == <<" ">>

T_VAR == <<"{", "{", "x", "}", "}">>

T_OPENER == TAG_OPEN \o SP \o W_COMMENT \o SP \o TAG_CLOSE

T_CLOSER == TAG_OPEN \o SP \o W_ENDCOMMENT \o SP \o TAG_CLOSE

\* leading marker texts of an inline content or of a block annotation
Markers ==
    {<<>>, HIDE_TOKEN, RENDER_TOKEN,
     HIDE_TOKEN \o SP \o RENDER_TOKEN, RENDER_TOKEN \o SP \o HIDE_TOKEN}

\* bodies without any comment delimiter
PlainBodies ==
    {<<>>, <<"a">>, T_VAR, <<"a", "\n", "b">>,
     <<"a", " ">> \o HIDE_TOKEN}
    \cup {<<"a">> \o Dashes(k) \o <<"b">> : k \in 1..MaxDashes}

\* bodies that look like comment delimiters or hold a whole comment
DelimBodies ==
    {<<"a", " ">> \o INLINE_CLOSE \o <<" ", "b">>,
     INLINE_OPEN \o <<" ", "b">>,
     INLINE_OPEN \o <<" ", "b", " ">> \o INLINE_CLOSE,
     T_OPENER \o <<"b">> \o T_CLOSER,
     T_OPENER \o <<"b">>,
     <<"a">> \o T_CLOSER \o <<"b">>,
     ENDVERBATIM_TAG \o T_VAR}

Bodies == PlainBodies \cup DelimBodies

NoteBodies ==
    {<<>>, <<"n">>, <<"n">> \o Dashes(2) \o <<"m">>,
     <<"n", " ">> \o HIDE_TOKEN}

\* {# lp marker sep body tp #}
InlineSrc(lp, marker, sep, body, tp) ==
    INLINE_OPEN \o lp \o marker \o sep \o body \o tp \o INLINE_CLOSE

\* {% comment "annotation" %}, or {% comment %} when annotation is None
OpenTag(p, q, annotation) ==
    TAG_OPEN \o p \o W_COMMENT
    \o (IF annotation = None THEN <<>>
        ELSE SP \o <<q>> \o annotation \o <<q>>)
    \o p \o TAG_CLOSE

CloseTag(p) == TAG_OPEN \o p \o W_ENDCOMMENT \o p \o TAG_CLOSE

\* {% comment "annotation" %} p body p {% endcomment %}
BlockSrc(p, q, annotation, body) ==
    OpenTag(p, q, annotation) \o p \o body \o p \o CloseTag(p)

\* annotations with whitespace before the marker
PaddedAnnotations ==
    {SP \o HIDE_TOKEN, SP \o RENDER_TOKEN, SP \o RENDER_TOKEN \o <<" ", "n">>}

Annotations ==
    {None} \cup {m \o sep \o n : m \in Markers, sep \in Pads, n \in NoteBodies}
    \cup PaddedAnnotations

InlineCases ==
    {[lp |-> lp, marker |-> m, sep |-> sep, body |-> b, tp |-> tp,
      src |-> InlineSrc(lp, m, sep, b, tp)] :
        lp \in Pads, m \in Markers, sep \in Pads, b \in Bodies, tp \in Pads}

BlockCases ==
    {[p |-> p, q |-> q, note |-> n, body |-> b,
      src |-> BlockSrc(p, q, n, b)] :
        p \in Pads, q \in QUOTES, n \in Annotations, b \in Bodies}

\* the cases of each table, indexed by the source they spell
InlineCasesOf ==
    [s \in {c.src : c \in InlineCases} |-> {c \in InlineCases : c.src = s}]

BlockCasesOf ==
    [s \in {c.src : c \in BlockCases} |-> {c \in BlockCases : c.src = s}]

\* the inline cases written as the source s, none when s is not in the table
InlineCasesFor(s) ==
    IF s \in DOMAIN InlineCasesOf THEN InlineCasesOf[s] ELSE {}

\* the block cases written as the source s, none when s is not in the table
BlockCasesFor(s) ==
    IF s \in DOMAIN BlockCasesOf THEN BlockCasesOf[s] ELSE {}

\* sources that hold no whole comment: plain text and near misses
OtherSources ==
    {<<>>, <<"a">>, <<"<", "p", ">">> \o T_VAR,
     INLINE_OPEN \o <<" ", "a">>,
     <<"a", " ">> \o INLINE_CLOSE,
     <<"{", "#", "}">>,
     <<"{", " ", "#", "a", "#", " ", "}">>,
     INLINE_CLOSE \o <<"a">> \o INLINE_OPEN,
     T_OPENER \o <<"a">>,
     <<"a">> \o T_CLOSER,
     T_CLOSER \o <<"a">> \o T_OPENER,
     TAG_OPEN \o SP \o W_COMMENT \o <<" ", "\"", "n", " ">> \o TAG_CLOSE
         \o <<"c">> \o T_CLOSER,
     TAG_OPEN \o SP \o W_COMMENT \o <<"\"", "n", "\"", " ">> \o TAG_CLOSE
         \o <<"c">> \o T_CLOSER,
     TAG_OPEN \o SP \o W_COMMENT \o <<" ", "n", " ">> \o TAG_CLOSE
         \o <<"c">> \o T_CLOSER,
     TAG_OPEN \o SP \o W_COMMENT \o <<"s", " ">> \o TAG_CLOSE
         \o <<"c">> \o T_CLOSER,
     T_OPENER \o <<"c">> \o TAG_OPEN \o <<" ", "e", "n", "d", " ">>
         \o W_COMMENT \o SP \o TAG_CLOSE}

\* the block comment of the nesting test, an inline comment as its content
NestedSource ==
    T_OPENER
    \o INLINE_OPEN \o <<" ", "i", "n", "n", "e", "r", " ">> \o INLINE_CLOSE
    \o T_CLOSER

\* the source of the test of block comments that cannot nest
NestedBlockSource ==
    T_OPENER \o <<"o", "u", "t", "e", "r">> \o T_OPENER
    \o <<"i", "n", "n", "e", "r">> \o T_CLOSER \o T_CLOSER

\* the source of the test of several block comments
TwoBlocksSource ==
    T_OPENER \o <<"o", "n", "e">> \o T_CLOSER \o <<"t", "e", "x", "t">>
    \o T_OPENER \o <<"t", "w", "o">> \o T_CLOSER

\* the source of the test of mixed block and inline comments
MixedSource ==
    INLINE_OPEN \o <<" ", "i", "n", "l", "i", "n", "e", " ">> \o INLINE_CLOSE
    \o T_OPENER \o <<"b", "l", "o", "c", "k">> \o T_CLOSER
    \o INLINE_OPEN \o <<" ", "i", "n", "l", "i", "n", "e", "2", " ">>
    \o INLINE_CLOSE

TestSources == {NestedSource, NestedBlockSource, TwoBlocksSource, MixedSource}

\* pieces of delimiters, to be put together in any order
Frags ==
    {INLINE_OPEN, INLINE_CLOSE, <<"}">>, <<"a">>, SP,
     TAG_OPEN \o SP \o W_COMMENT, SP \o TAG_CLOSE, T_CLOSER,
     <<" ", "'", "n", "'">>}

RECURSIVE FragTexts(_)
\* the texts made of at most n fragments
FragTexts(n) ==
    IF n = 0 THEN {<<>>}
    ELSE FragTexts(n - 1)
         \cup {f \o t : f \in Frags, t \in FragTexts(n - 1)}

\* text without any comment, placed before, between and after comments
Segments == {<<>>, <<"<", "p", ">">> \o T_VAR \o <<"\n">>}

\* complete comments of both forms: default, hidden and render
CompComments ==
    {InlineSrc(SP, <<>>, <<>>, <<"a">>, SP),
     InlineSrc(SP, HIDE_TOKEN, SP, <<"a">>, SP),
     InlineSrc(SP, RENDER_TOKEN, SP, <<"a">>, SP),
     BlockSrc(SP, "\"", <<"n">>, <<"c">>),
     BlockSrc(SP, "\"", HIDE_TOKEN, <<"c">>),
     BlockSrc(SP, "\"", RENDER_TOKEN, <<"c">> \o Dashes(2) \o <<"d">>)}

RECURSIVE CompTexts(_)
\* the texts made of at most n comments, with a segment before, between
\* and after them
CompTexts(n) ==
    IF n = 0 THEN Segments
    ELSE CompTexts(n - 1)
         \cup {t \o c \o g : t \in CompTexts(n - 1), c \in CompComments,
                              g \in Segments}

CompSources == CompTexts(MaxComments)

Sources ==
    {c.src : c \in InlineCases} \cup {c.src : c \in BlockCases}
    \cup OtherSources \cup FragTexts(MaxFrags) \cup TestSources
    \cup CompSources

\* texts over a dash, a letter, a space and a line break
EscTexts ==
    UNION {[1..n -> {"-", "a", " ", "\n"}] : n \in 0..MaxEscLen}
    \cup {<<"a", "-", "-", "b", "-", "-", "c">>}

(***************************************************************************)
(* Exceptions of the conversions.  The str methods of note are called only *)
(* behind "note and", those of the content groups without a test.          *)
(***************************************************************************)
IsStr(x) == x # None

\* _convert_block_comment with the methods of note called without the
\* "note and" test
_convert_block_comment_raises_unguarded(note, content) ==
    \/ ~IsStr(note)
    \/ ~IsStr(content)

\* _convert_block_comment(match) raises AttributeError
_convert_block_comment_raises(note, content) ==
    \/ Truthy(note) /\ ~IsStr(note)
    \/ ~IsStr(content)

\* _convert_inline_comment(match) raises AttributeError
_convert_inline_comment_raises(g1) == ~IsStr(g1)

RECURSIVE BlockSubRaises(_, _)
\* a replacement call of the block substitution raises
BlockSubRaises(s, pos) ==
    LET m == BlockSearch(s, pos)
    IN m.found /\ (\/ _convert_block_comment_raises(m.g1, m.g2)
                   \/ BlockSubRaises(s, m.stop))

RECURSIVE InlineSubRaises(_, _)
\* a replacement call of the inline substitution raises
InlineSubRaises(s, pos) ==
    LET m == InlineSearch(s, pos)
    IN m.found /\ (\/ _convert_inline_comment_raises(m.g1)
                   \/ InlineSubRaises(s, m.stop))

\* the locals of an invocation after its block pass
AfterBlockPass(l) ==
    IF BlockSubRaises(l.source, 1) THEN [l EXCEPT !.pc = "error"]
    ELSE [l EXCEPT !.result = BlockSub(l.source, 1), !.pc = "inline_pass"]

\* an inline pass that scans the source again, not the text left by the
\* block pass
AfterInlinePass_on_source(l) ==
    IF InlineSubRaises(l.source, 1) THEN [l EXCEPT !.pc = "error"]
    ELSE [l EXCEPT !.result = InlineSub(l.source, 1), !.pc = "done"]

\* the locals of an invocation after its inline pass
AfterInlinePass(l) ==
    IF InlineSubRaises(l.result, 1) THEN [l EXCEPT !.pc = "error"]
    ELSE [l EXCEPT !.result = InlineSub(l.result, 1), !.pc = "done"]

(***************************************************************************)
(* The loader: Loader.get_contents of loaders/filesystem.py, inherited by  *)
(* the Loader of loaders/app_directories.py.                               *)
(***************************************************************************)
Unset == "unset"

SettingValues == {Unset, "True", "False"}

SettingNames == {"DEBUG", "RENDER_COMMENTS_ENABLED"}

LOADERS == {"filesystem", "app_directories"}

\* what open(origin.name) does
OpenOutcomes == {"ok", "FileNotFoundError", "PermissionError"}

\* getattr(settings, name, default)
getattr(st, name, default) == IF st[name] = Unset THEN default ELSE st[name]

\* the truth value of a setting
IsTrue(v) == v = "True"

\* get_contents with the two flags read at the first call only and kept
\* for the calls that follow
ShouldPreprocess_cached(st) ==
    IF nloads > 0 THEN transforms > 0
    ELSE /\ IsTrue(getattr(st, "DEBUG", "False"))
         /\ IsTrue(getattr(st, "RENDER_COMMENTS_ENABLED", "True"))

\* get_contents with the two tests as one "or"
ShouldPreprocess_either(st) ==
    \/ IsTrue(getattr(st, "DEBUG", "False"))
    \/ IsTrue(getattr(st, "RENDER_COMMENTS_ENABLED", "True"))

\* the two nested tests of get_contents
ShouldPreprocess(st) ==
    /\ IsTrue(getattr(st, "DEBUG", "False"))
    /\ IsTrue(getattr(st, "RENDER_COMMENTS_ENABLED", "True"))

\* get_contents with every failure of open turned into itself
NotFoundSignal_generic(err) == err

\* the exception get_contents raises when open raises err
NotFoundSignal(err) ==
    IF err = "FileNotFoundError" THEN "TemplateDoesNotExist" ELSE err

\* template files
FileTexts ==
    {<<"<", "p", ">">> \o T_VAR,
     InlineSrc(SP, <<>>, <<>>, <<"a">>, SP),
     InlineSrc(SP, HIDE_TOKEN, SP, <<"a">>, SP),
     InlineSrc(SP, RENDER_TOKEN, SP, T_VAR, SP),
     BlockSrc(SP, "\"", <<"n">>, <<"a">>),
     BlockSrc(SP, "\"", HIDE_TOKEN, <<"a">>),
     <<"a">> \o InlineSrc(SP, <<>>, <<>>, <<"b">>, SP) \o T_VAR,
     NestedSource}

Origins ==
    {[open |-> "ok", text |-> t] : t \in FileTexts}
    \cup {[open |-> o, text |-> <<>>] :
            o \in {"FileNotFoundError", "PermissionError"}}

(***************************************************************************)
(* Concurrent invocations of preprocess_template.                          *)
(***************************************************************************)
Threads == 1..NThreads

ThreadInputs ==
    {<<"a">>,
     InlineSrc(SP, <<>>, <<>>, <<"a">>, SP),
     InlineSrc(SP, HIDE_TOKEN, SP, <<"a">>, SP),
     InlineSrc(SP, RENDER_TOKEN, SP, <<"b">>, SP),
     BlockSrc(SP, "\"", <<"n">>, <<"c">>),
     NestedSource}

\* the text that the inline pass of invocation t reads, were result one
\* module-level variable that every invocation writes
local_result_shared(t) == inv[NThreads].result

\* the local result of invocation t, read by its inline pass
local_result(t) == inv[t].result

(***************************************************************************)
(* The state machine: one call of preprocess_template on source, one call  *)
(* of escape_html_comment on text, a loader that is asked for the contents *)
(* of a file while the settings change, or concurrent calls of             *)
(* preprocess_template.                                                    *)
(***************************************************************************)
IdleTemplate == source = <<>> /\ result = <<>> /\ pc = "idle"

IdleEscape == text = <<>> /\ escaped = <<>> /\ epc = "idle"

IdleLoader ==
    /\ settings = [n \in SettingNames |-> Unset]
    /\ origin = [open |-> "ok", text |-> <<>>]
    /\ loader = "filesystem"
    /\ contents = None
    /\ raised = "none"
    /\ transforms = 0
    /\ nloads = 0
    /\ lpc = "idle"

IdleThreads ==
    inv = [t \in Threads |-> [source |-> <<>>, result |-> <<>>, pc |-> "idle"]]

InitTemplate ==
    /\ source \in Sources
    /\ result = <<>>
    /\ pc = "block_pass"
    /\ IdleEscape /\ IdleLoader /\ IdleThreads

InitEscape ==
    /\ text \in EscTexts
    /\ escaped = <<>>
    /\ epc = "call"
    /\ IdleTemplate /\ IdleLoader /\ IdleThreads

InitLoader ==
    /\ settings \in [SettingNames -> SettingValues]
    /\ origin \in Origins
    /\ loader \in LOADERS
    /\ contents = None
    /\ raised = "none"
    /\ transforms = 0
    /\ nloads = 0
    /\ lpc = "ready"
    /\ IdleTemplate /\ IdleEscape /\ IdleThreads

InitThreads ==
    /\ inv \in [Threads -> {[source |-> s, result |-> <<>>, pc |-> "block_pass"] :
                                s \in ThreadInputs}]
    /\ IdleTemplate /\ IdleEscape /\ IdleLoader

Init == InitTemplate \/ InitEscape \/ InitLoader \/ InitThreads

\* result = BLOCK_COMMENT_PATTERN.sub(_convert_block_comment, source)
BlockPass ==
    /\ pc = "block_pass"
    /\ LET l == AfterBlockPass([source |-> source, result |-> result,
                                pc |-> pc])
       IN result' = l.result /\ pc' = l.pc
    /\ UNCHANGED <<source, evars, lvars, inv>>

\* result = INLINE_COMMENT_PATTERN.sub(_convert_inline_comment, result);
\* return result
InlinePass ==
    /\ pc = "inline_pass"
    /\ LET l == AfterInlinePass([source |-> source, result |-> result,
                                 pc |-> pc])
       IN result' = l.result /\ pc' = l.pc
    /\ UNCHANGED <<source, evars, lvars, inv>>

\* return text.replace("--", "- -")
EscapeCall ==
    /\ epc = "call"
    /\ escaped' = escape_html_comment(text)
    /\ epc' = "done"
    /\ UNCHANGED <<tvars, text, lvars, inv>>

\* settings.<name> = v, or del settings.<name>
SetSetting(name, v) ==
    /\ lpc # "idle"
    /\ settings[name] # v
    /\ settings' = [settings EXCEPT ![name] = v]
    /\ UNCHANGED <<tvars, evars, origin, loader, contents, raised,
                   transforms, nloads, lpc, inv>>

\* Loader.get_contents(origin)
GetContents ==
    /\ lpc # "idle"
    /\ nloads < MaxLoads
    /\ nloads' = nloads + 1
    /\ IF origin.open # "ok"
       THEN /\ raised' = NotFoundSignal(origin.open)
            /\ contents' = None
            /\ transforms' = transforms
            /\ lpc' = "raised"
       ELSE /\ raised' = "none"
            /\ contents' = IF ShouldPreprocess(settings)
                           THEN preprocess_template(origin.text)
                           ELSE origin.text
            /\ transforms' = IF ShouldPreprocess(settings)
                             THEN transforms + 1 ELSE transforms
            /\ lpc' = "returned"
    /\ UNCHANGED <<tvars, evars, settings, origin, loader, inv>>

\* the block pass of invocation t
ThreadBlockPass(t) ==
    /\ inv[t].pc = "block_pass"
    /\ inv' = [inv EXCEPT ![t] = AfterBlockPass(inv[t])]
    /\ UNCHANGED <<tvars, evars, lvars>>

\* the inline pass of invocation t
ThreadInlinePass(t) ==
    /\ inv[t].pc = "inline_pass"
    /\ inv' = [inv EXCEPT
                 ![t] = AfterInlinePass([inv[t] EXCEPT
                                           !.result = local_result(t)])]
    /\ UNCHANGED <<tvars, evars, lvars>>

Next ==
    \/ BlockPass
    \/ InlinePass
    \/ EscapeCall
    \/ \E name \in SettingNames, v \in SettingValues : SetSetting(name, v)
    \/ GetContents
    \/ \E t \in Threads : ThreadBlockPass(t)
    \/ \E t \in Threads : ThreadInlinePass(t)

Spec == Init /\ [][Next]_vars

(***************************************************************************)
(* The two comment grammars, stated on positions of the text.              *)
(***************************************************************************)
\* every character of s at the indices a .. b-1 is whitespace
AllWs(s, a, b) == \A k \in a..(b - 1) : s[k] \in WS

\* s holds "{#" and, after it, "#}"
HasInlineSpan(s) ==
    \E i \in 1..Len(s) :
        /\ IsAt(s, i, INLINE_OPEN)
        /\ \E j \in (i + 2)..Len(s) : IsAt(s, j, INLINE_CLOSE)

\* the characters i .. e-1 of s are an opening tag, with or without a
\* quoted annotation
IsOpenTag(s, i, e) ==
    /\ IsAt(s, i, TAG_OPEN)
    /\ IsAt(s, e - 2, TAG_CLOSE)
    /\ \E a \in (i + 2)..(e - 2) :
        /\ AllWs(s, i + 2, a)
        /\ IsAt(s, a, W_COMMENT)
        /\ \/ AllWs(s, a + 7, e - 2)
           \/ \E c \in (a + 8)..(e - 4) : \E d \in (c + 1)..(e - 3) :
                /\ AllWs(s, a + 7, c)
                /\ s[c] \in QUOTES
                /\ s[d] \in QUOTES
                /\ \A k \in (c + 1)..(d - 1) : s[k] \notin QUOTES
                /\ AllWs(s, d + 1, e - 2)

\* the characters j .. e-1 of s are a closing tag
IsCloseTag(s, j, e) ==
    /\ IsAt(s, j, TAG_OPEN)
    /\ IsAt(s, e - 2, TAG_CLOSE)
    /\ \E a \in (j + 2)..(e - 2) :
        /\ AllWs(s, j + 2, a)
        /\ IsAt(s, a, W_ENDCOMMENT)
        /\ AllWs(s, a + 10, e - 2)

HasCloseTag(s) ==
    \E j \in 1..Len(s) : \E e \in (j + 4)..(Len(s) + 1) : IsCloseTag(s, j, e)

\* s holds an opening tag and, after it, a closing tag
HasBlockSpan(s) ==
    \E i \in 1..Len(s) : \E e \in (i + 4)..(Len(s) + 1) :
        /\ IsOpenTag(s, i, e)
        /\ \E j \in e..Len(s) : \E f \in (j + 4)..(Len(s) + 1) :
            IsCloseTag(s, j, f)

\* the default conversion of a comment: the guard pair around the HTML
\* comment of an optional note and a content
Bracketed(n) == <<"[">> \o escape_html_comment(n) \o <<"]", " ">>

HtmlComment(prefix, c) ==
    HTML_OPEN \o prefix \o escape_html_comment(strip(c)) \o HTML_CLOSE

Guarded(x) == VERBATIM_TAG \o x \o ENDVERBATIM_TAG

endswith(s, w) == IsAt(s, Len(s) - Len(w) + 1, w)

(***************************************************************************)
(* C1..C3                                                                  *)
(***************************************************************************)
\* C1: a source that holds no inline span and no block span is returned
\* unchanged by preprocess_template.
C1_Passthrough ==
    (pc = "done" /\ ~HasInlineSpan(source) /\ ~HasBlockSpan(source))
        => result = source

\* a returned source without any span that holds an inline opening marker
\* or an opening tag
C1_Witness ==
    /\ pc = "done"
    /\ ~HasInlineSpan(source) /\ ~HasBlockSpan(source)
    /\ contains(source, T_OPENER) \/ contains(source, INLINE_OPEN)
    /\ result = source

\* the text t of a source "{# " t " #}"
WrappedText(s) == SubSeq(s, 4, Len(s) - 3)

IsWrapped(s) ==
    /\ Len(s) >= 6
    /\ startswith(s, INLINE_OPEN \o SP)
    /\ endswith(s, SP \o INLINE_CLOSE)

\* C2 as stated: for any t that does not start with !hide or !render, the
\* source "{# " t " #}" becomes the guard-wrapped comment of escape(trim(t)).
C2_Original ==
    (/\ pc = "done"
     /\ IsWrapped(source)
     /\ ~startswith(WrappedText(source), HIDE_TOKEN)
     /\ ~startswith(WrappedText(source), RENDER_TOKEN))
        => result = Guarded(HtmlComment(<<>>, WrappedText(source)))

\* C2 amended: for any t that holds no "#}" and no block comment and whose
\* trimmed text does not start with !hide or !render, the source
\* "{# " t " #}" becomes the guard-wrapped comment of escape(trim(t)).
C2_InlineDefault ==
    (/\ pc = "done"
     /\ IsWrapped(source)
     /\ ~contains(WrappedText(source), INLINE_CLOSE)
     /\ ~HasBlockSpan(WrappedText(source))
     /\ ~startswith(strip(WrappedText(source)), HIDE_TOKEN)
     /\ ~startswith(strip(WrappedText(source)), RENDER_TOKEN))
        => result = Guarded(HtmlComment(<<>>, WrappedText(source)))

\* a default inline comment whose padded text held "--", converted
C2_Witness ==
    /\ pc = "done"
    /\ source = InlineSrc(Spaces(2), <<>>, <<>>,
                          <<"a">> \o Dashes(2) \o <<"b">>, Spaces(2))
    /\ result = Guarded(HTML_OPEN \o <<"a", "-", " ", "-", "b">>
                        \o HTML_CLOSE)

\* an annotation that is absent, or non-empty without a leading marker
IsDefaultNote(n) ==
    \/ n = None
    \/ n # <<>> /\ ~startswith(n, HIDE_TOKEN) /\ ~startswith(n, RENDER_TOKEN)

\* C3: a block comment whose annotation n is absent, or non-empty and not
\* started by !hide or !render, is replaced by the guard pair around
\* "<!-- [escape(n)] escape(trim(c)) -->", or around
\* "<!-- escape(trim(c)) -->" without annotation; c is the block content
\* and the whole of n is the note.  It is the result of the block pass, and
\* the returned text when the source holds no inline opening marker.
C3_BlockDefault ==
    (pc = "inline_pass"
     \/ (pc = "done" /\ ~contains(source, INLINE_OPEN)))
        => \A c \in BlockCasesFor(source) :
            (source = c.src /\ IsDefaultNote(c.note) /\ ~HasCloseTag(c.body))
                => result =
                    Guarded(HtmlComment(
                        IF c.note = None THEN <<>> ELSE Bracketed(c.note),
                        c.p \o c.body \o c.p))

\* a default block comment with a note and a content that both held "--"
C3_Witness ==
    /\ pc = "inline_pass"
    /\ source = BlockSrc(SP, "'", <<"n">> \o Dashes(2) \o <<"m">>,
                         <<"a">> \o Dashes(2) \o <<"b">>)
    /\ result = Guarded(HTML_OPEN \o <<"[", "n", "-", " ", "-", "m", "]", " ",
                                      "a", "-", " ", "-", "b">> \o HTML_CLOSE)

(***************************************************************************)
(* C4..C7                                                                  *)
(***************************************************************************)
HIDDEN_INLINE_OPEN == INLINE_OPEN \o SP \o HIDE_TOKEN \o SP

HIDDEN_BLOCK_OPEN ==
    TAG_OPEN \o SP \o W_COMMENT \o <<" ", "\"">> \o HIDE_TOKEN
    \o <<"\"", " ">> \o TAG_CLOSE

\* C4: for any content c, also one that looks like a comment delimiter or
\* holds a whole comment of the other form, the sources "{# !hide c #}" and
\* {% comment "!hide" %}c{% endcomment %} are returned unchanged.
C4_HiddenUnchanged ==
    (/\ pc = "done"
     /\ \/ /\ Len(source) >= Len(HIDDEN_INLINE_OPEN) + 3
           /\ startswith(source, HIDDEN_INLINE_OPEN)
           /\ endswith(source, SP \o INLINE_CLOSE)
        \/ /\ Len(source) >= Len(HIDDEN_BLOCK_OPEN) + Len(T_CLOSER)
           /\ startswith(source, HIDDEN_BLOCK_OPEN)
           /\ endswith(source, T_CLOSER))
        => result = source

\* the two orders of the markers, as the leading text of a content or of
\* an annotation
StartsBothMarkers(x) ==
    \/ startswith(x, HIDE_TOKEN \o SP \o RENDER_TOKEN)
    \/ startswith(x, RENDER_TOKEN \o SP \o HIDE_TOKEN)

\* C5: a comment whose leading tokens are "!hide !render" or
\* "!render !hide", in an inline content or in a block annotation, with or
\* without a note after them, is classified hidden and left exactly as
\* written: a block by the block pass, and in the returned text when it
\* holds no inline opening marker; an inline comment in the returned text
\* when it holds no block comment.
C5_HideWins ==
    /\ (pc = "inline_pass"
        \/ (pc = "done" /\ ~contains(source, INLINE_OPEN)))
            => \A c \in BlockCasesFor(source) :
                (source = c.src /\ c.note # None /\ StartsBothMarkers(c.note))
                    => result = source
    /\ pc = "done"
            => \A c \in InlineCasesFor(source) :
                (/\ source = c.src
                 /\ StartsBothMarkers(c.marker)
                 /\ ~HasBlockSpan(c.body))
                    => result = source

\* "{# !render !hide {{x}} #}" returned as written
C5_Witness ==
    /\ pc = "done"
    /\ result = source
    /\ source = InlineSrc(SP, RENDER_TOKEN \o SP \o HIDE_TOKEN, SP,
                          T_VAR, SP)

\* C6: a block comment whose annotation begins with !render and is not
\* hidden is replaced, without guard, by "<!-- [escape(r)] escape(trim(c))
\* -->" when the remainder r of the annotation after "!render" and the
\* whitespace that follows is not empty, and by "<!-- escape(trim(c)) -->"
\* when it is empty.
C6_BlockRender ==
    (pc = "inline_pass"
     \/ (pc = "done" /\ ~contains(source, INLINE_OPEN)))
        => \A c \in BlockCasesFor(source) :
            (/\ source = c.src
             /\ c.note # None
             /\ startswith(c.note, RENDER_TOKEN)
             /\ ~contains(c.note, HIDE_TOKEN)
             /\ ~HasCloseTag(c.body))
                => LET r == lstrip(SliceFrom(c.note, 7))
                   IN result =
                        HtmlComment(IF r = <<>> THEN <<>> ELSE Bracketed(r),
                                    c.p \o c.body \o c.p)

\* a render block with a note after the marker, converted without guard
\* and without the marker
C6_Witness ==
    /\ pc = "inline_pass"
    /\ source = BlockSrc(SP, "\"", RENDER_TOKEN \o <<" ", " ", "n">>, T_VAR)
    /\ result = HTML_OPEN \o <<"[", "n", "]", " ">> \o T_VAR \o HTML_CLOSE

\* C7: an inline comment whose trimmed content begins with !render and is
\* not hidden is replaced, without guard, by "<!-- escape(rest) -->", rest
\* being the content after the marker and the whitespace that follows it;
\* the marker is not in the output.
C7_InlineRender ==
    pc = "done"
        => \A c \in InlineCasesFor(source) :
            (/\ source = c.src
             /\ c.marker = RENDER_TOKEN
             /\ ~startswith(c.body, HIDE_TOKEN)
             /\ ~contains(c.body, INLINE_CLOSE)
             /\ ~HasBlockSpan(c.body))
                => /\ result = HtmlComment(<<>>, c.body)
                   /\ ~contains(result, RENDER_TOKEN)

\* "{#  !render  a--b  #}" converted to "<!-- a- -b -->"
C7_Witness ==
    /\ pc = "done"
    /\ source = InlineSrc(Spaces(2), RENDER_TOKEN, Spaces(2),
                          <<"a">> \o Dashes(2) \o <<"b">>, Spaces(2))
    /\ result = HTML_OPEN \o <<"a", "-", " ", "-", "b">> \o HTML_CLOSE

(***************************************************************************)
(* C8..C10                                                                 *)
(***************************************************************************)
\* the number of dashes that stand immediately before index i of s
DashesBefore(s, i) ==
    CHOOSE k \in 0..(i - 1) :
        /\ \A m \in (i - k)..(i - 1) : s[m] = "-"
        /\ (i - k = 1 \/ s[i - k - 1] # "-")

\* index i starts one of the occurrences of "--" that a scan from the left
\* finds without overlap: an even number of dashes stands before it
OccStart(s, i) ==
    /\ i < Len(s)
    /\ s[i] = "-" /\ s[i + 1] = "-"
    /\ DashesBefore(s, i) % 2 = 0

\* s with a space put between the two dashes of each such occurrence
SpacedOut(s) ==
    LET shift(i) == Cardinality({k \in 1..(i - 1) : OccStart(s, k)})
        n == Cardinality({k \in 1..Len(s) : OccStart(s, k)})
    IN [p \in 1..(Len(s) + n) |->
            IF \E i \in 1..Len(s) : p = i + shift(i)
            THEN s[CHOOSE i \in 1..Len(s) : p = i + shift(i)]
            ELSE " "]

\* C8: escape_html_comment(t) is t with each occurrence of "--", found
\* from the left without overlap, replaced by "- -" and every other
\* character unchanged; "a--b--c" becomes "a- -b- -c" and "----" becomes
\* "- -- -".
C8_EscapeLeftToRight ==
    epc = "done"
        => /\ escaped = SpacedOut(text)
           /\ text = <<"a", "-", "-", "b", "-", "-", "c">>
                => escaped = <<"a", "-", " ", "-", "b", "-", " ", "-", "c">>
           /\ text = Dashes(4)
                => escaped = <<"-", " ", "-", "-", " ", "-">>

\* "a--b--c" escaped to "a- -b- -c"
C8_Witness ==
    /\ epc = "done"
    /\ text = <<"a", "-", "-", "b", "-", "-", "c">>
    /\ escaped = <<"a", "-", " ", "-", "b", "-", " ", "-", "c">>

\* C9: the text returned by escape_html_comment holds no "--".
C9_NoTerminator == epc = "done" => ~contains(escaped, DASHDASH)

\* the characters j .. e-1 of s are a tag that closes a guard
IsEndVerbatimTag(s, j, e) ==
    /\ IsAt(s, j, TAG_OPEN)
    /\ IsAt(s, e - 2, TAG_CLOSE)
    /\ \E a \in (j + 2)..(e - 2) :
        /\ AllWs(s, j + 2, a)
        /\ IsAt(s, a, <<"e", "n", "d">> \o W_VERBATIM)
        /\ AllWs(s, a + 11, e - 2)

HasEndVerbatimTag(s) ==
    \E j \in 1..Len(s) : \E e \in (j + 4)..(Len(s) + 1) :
        IsEndVerbatimTag(s, j, e)

\* r is one guard pair whose interior holds no tag that closes the guard
GuardHolds(r) ==
    /\ Len(r) >= Len(VERBATIM_TAG) + Len(ENDVERBATIM_TAG)
    /\ startswith(r, VERBATIM_TAG)
    /\ endswith(r, ENDVERBATIM_TAG)
    /\ ~HasEndVerbatimTag(
            SubSeq(r, Len(VERBATIM_TAG) + 1, Len(r) - Len(ENDVERBATIM_TAG)))

\* C10: for every default inline or block comment, the text between the
\* emitted "{% verbatim %}" and the "{% endverbatim %}" emitted with it
\* holds no tag that closes the guard.
C10_GuardLiteral ==
    pc = "done"
        => /\ \A c \in InlineCasesFor(source) :
                (/\ source = c.src
                 /\ c.marker = <<>>
                 /\ ~contains(c.body, INLINE_CLOSE))
                    => GuardHolds(result)
           /\ \A c \in BlockCasesFor(source) :
                (/\ source = c.src
                 /\ (c.note = <<>> \/ IsDefaultNote(c.note))
                 /\ ~HasCloseTag(c.body))
                    => GuardHolds(result)

(***************************************************************************)
(* C11, C17: an inline comment that lies inside a block comment            *)
(***************************************************************************)
\* the body that is a whole inline comment
SpanBody == INLINE_OPEN \o <<" ", "b", " ">> \o INLINE_CLOSE

NoteOf(c) == IF c.note = None THEN <<>> ELSE Bracketed(c.note)

INNER == <<"i", "n", "n", "e", "r">>

\* C11 as stated: an inline comment inside the content of a block comment
\* appears as written inside the guarded comment of the block in the
\* returned text; the inline pass does not match it.
C11_Original ==
    pc = "done"
        => /\ source = NestedSource
                => result = Guarded(HTML_OPEN \o INLINE_OPEN \o SP \o INNER
                                    \o SP \o INLINE_CLOSE \o HTML_CLOSE)
           /\ \A c \in BlockCasesFor(source) :
                (source = c.src /\ IsDefaultNote(c.note) /\ c.body = SpanBody)
                    => result = Guarded(HtmlComment(NoteOf(c), c.body))

\* C11 amended: an inline comment inside the content of a block comment is
\* part of the content the block pass captures, and appears as written
\* inside the guarded comment that the block pass puts out; the inline pass
\* that follows matches it there and replaces it, so that no inline opening
\* marker is left in the returned text.
C11_BlockCapturesSpan ==
    /\ pc = "inline_pass"
        => /\ source = NestedSource
                => result = Guarded(HTML_OPEN \o INLINE_OPEN \o SP \o INNER
                                    \o SP \o INLINE_CLOSE \o HTML_CLOSE)
           /\ \A c \in BlockCasesFor(source) :
                (source = c.src /\ IsDefaultNote(c.note) /\ c.body = SpanBody)
                    => result = Guarded(HtmlComment(NoteOf(c), c.body))
    /\ pc = "done"
        => /\ source = NestedSource => ~contains(result, INLINE_OPEN)
           /\ \A c \in BlockCasesFor(source) :
                (source = c.src /\ IsDefaultNote(c.note) /\ c.body = SpanBody)
                    => ~contains(result, INLINE_OPEN)

\* the nesting test's source after the block pass, the inline comment as
\* written inside the guarded comment
C11_Witness ==
    /\ pc = "inline_pass"
    /\ source = NestedSource
    /\ contains(result, HTML_OPEN \o INLINE_OPEN \o SP \o INNER)

\* C17: an inline comment inside a default block comment is converted too:
\* the block is converted first, then the inline pass converts the inline
\* comment inside the output of the block, so that the nesting test's
\* source yields the guard pair around "<!-- " the guard pair around
\* "<!-- inner -->" " -->".
C17_NestedConverted ==
    pc = "done"
        => /\ source = NestedSource
                => result =
                    Guarded(HTML_OPEN
                            \o Guarded(HTML_OPEN \o INNER \o HTML_CLOSE)
                            \o HTML_CLOSE)
           /\ \A c \in BlockCasesFor(source) :
                (source = c.src /\ IsDefaultNote(c.note) /\ c.body = SpanBody)
                    => result =
                        Guarded(HTML_OPEN \o NoteOf(c)
                                \o Guarded(HTML_OPEN \o <<"b">> \o HTML_CLOSE)
                                \o HTML_CLOSE)

\* the nesting test's source returned with both comments converted
C17_Witness ==
    /\ pc = "done"
    /\ source = NestedSource
    /\ contains(result, VERBATIM_TAG \o HTML_OPEN \o INNER \o HTML_CLOSE
                          \o ENDVERBATIM_TAG)

(***************************************************************************)
(* C18..C20: where the markers are looked for                              *)
(***************************************************************************)
\* a text that starts with the marker m and goes on with a character that
\* is not whitespace
SharesPrefix(x, m) ==
    startswith(x, m) /\ Len(x) > Len(m) /\ x[Len(m) + 1] \notin WS

\* C18: inline content or a block annotation that starts with !hide or
\* !render followed by a character that is not whitespace is classified
\* default: it becomes a guard-wrapped comment that holds its full text.
C18_WordBoundary ==
    pc = "done"
        => /\ \A c \in InlineCasesFor(source) :
                (/\ source = c.src
                 /\ c.body \in PlainBodies
                 /\ \/ SharesPrefix(c.marker \o c.sep \o c.body, HIDE_TOKEN)
                    \/ SharesPrefix(c.marker \o c.sep \o c.body,
                                    RENDER_TOKEN))
                    => result =
                        Guarded(HtmlComment(<<>>,
                                            c.marker \o c.sep \o c.body))
           /\ \A c \in BlockCasesFor(source) :
                (/\ source = c.src
                 /\ c.body \in PlainBodies
                 /\ c.note # None
                 /\ \/ SharesPrefix(c.note, HIDE_TOKEN)
                    \/ SharesPrefix(c.note, RENDER_TOKEN))
                    => result = Guarded(HtmlComment(Bracketed(c.note), c.body))

\* C19: an inline comment whose content holds both !hide and !render, in
\* any order, each followed by whitespace or by the end of the content, is
\* returned unchanged.
C19_HideWinsAnyOrder ==
    pc = "done"
        => \A c \in InlineCasesFor(source) :
            (/\ source = c.src
             /\ c.body \in PlainBodies
             /\ c.sep # <<>>
             /\ contains(c.marker \o c.sep \o c.body, HIDE_TOKEN)
             /\ contains(c.marker \o c.sep \o c.body, RENDER_TOKEN))
                => result = source

\* C20: a block comment whose annotation starts with !render and holds
\* !hide anywhere, right after !render or after other note text, is left
\* unchanged by the block pass, and is returned unchanged when the source
\* holds no inline opening marker.
C20_BlockRenderHide ==
    (pc = "inline_pass"
     \/ (pc = "done" /\ ~contains(source, INLINE_OPEN)))
        => \A c \in BlockCasesFor(source) :
            (/\ source = c.src
             /\ c.note # None
             /\ startswith(c.note, RENDER_TOKEN)
             /\ contains(c.note, HIDE_TOKEN))
                => result = source

\* a block annotated "!render n !hide" with a content, returned as written
C20_Witness ==
    /\ pc = "done"
    /\ source = BlockSrc(SP, "\"", RENDER_TOKEN \o SP \o <<"n", " ">>
                                        \o HIDE_TOKEN, <<"a">>)
    /\ result = source

(***************************************************************************)
(* C12: no error outcome                                                   *)
(***************************************************************************)
\* C12: no call of preprocess_template ends in an error: no replacement
\* call of either pass raises, and the call returns a text; a source that
\* holds no inline span and no block span, malformed fragments included, is
\* returned untouched.
C12_NoErrorOutcome ==
    /\ pc # "error"
    /\ pc = "done"
        => /\ IsStr(result)
           /\ (~HasInlineSpan(source) /\ ~HasBlockSpan(source))
                => result = source

\* a block comment without its closing tag, followed by an inline closing
\* marker, returned as written
C12_Witness ==
    /\ pc = "done"
    /\ source = TAG_OPEN \o SP \o W_COMMENT \o SP \o TAG_CLOSE \o INLINE_CLOSE
    /\ result = source

(***************************************************************************)
(* C13, C14: the loader                                                    *)
(***************************************************************************)
\* C13: a get_contents call of either loader on a file that can be read
\* returns preprocess_template of the file text, and calls it once, exactly
\* when DEBUG is true and RENDER_COMMENTS_ENABLED is true or unset; in
\* every other case, an unset DEBUG included, it returns the file text
\* unchanged and does not call preprocess_template.
C13_LoaderGate ==
    [][(nloads' = nloads + 1 /\ origin.open = "ok")
        => IF /\ settings["DEBUG"] = "True"
              /\ settings["RENDER_COMMENTS_ENABLED"] \in {"True", Unset}
           THEN /\ contents' = preprocess_template(origin.text)
                /\ transforms' = transforms + 1
                /\ raised' = "none"
           ELSE /\ contents' = origin.text
                /\ transforms' = transforms
                /\ raised' = "none"]_vars

\* the app-directories loader, DEBUG true and RENDER_COMMENTS_ENABLED unset,
\* has returned a converted file
C13_Witness ==
    /\ lpc = "returned"
    /\ loader = "app_directories"
    /\ settings["DEBUG"] = "True"
    /\ settings["RENDER_COMMENTS_ENABLED"] = Unset
    /\ transforms = 1 /\ nloads = 1
    /\ contents = preprocess_template(origin.text)
    /\ contents # origin.text

\* C14: when the file does not exist, every get_contents call raises
\* TemplateDoesNotExist, returns no contents and does not call
\* preprocess_template, whatever the two settings are.
C14_MissingFile ==
    (origin.open = "FileNotFoundError" /\ nloads > 0)
        => /\ lpc = "raised"
           /\ raised = "TemplateDoesNotExist"
           /\ contents = None
           /\ transforms = 0

\* a missing file asked for while DEBUG is true and RENDER_COMMENTS_ENABLED
\* is unset
C14_Witness ==
    /\ origin.open = "FileNotFoundError"
    /\ nloads > 0
    /\ settings["DEBUG"] = "True"
    /\ settings["RENDER_COMMENTS_ENABLED"] = Unset
    /\ raised = "TemplateDoesNotExist"

(***************************************************************************)
(* C16: concurrent invocations                                             *)
(***************************************************************************)
\* C16: under every interleaving of the passes of concurrent invocations of
\* preprocess_template, each invocation ends without error and returns what
\* preprocess_template returns for its source on its own, and no step
\* changes the source of any invocation.
C16_NoSharedState ==
    /\ [](\A t \in Threads :
            /\ inv[t].pc # "error"
            /\ inv[t].pc = "done"
                => inv[t].result = preprocess_template(inv[t].source))
    /\ [][\A t \in Threads : inv'[t].source = inv[t].source]_vars

\* the first invocation has returned a converted text while the last one,
\* called on another source, is between its two passes
C16_Witness ==
    /\ inv[1].pc = "done"
    /\ inv[NThreads].pc = "inline_pass"
    /\ inv[1].source # inv[NThreads].source
    /\ inv[1].result # inv[1].source
    /\ inv[NThreads].result # inv[NThreads].source

(***************************************************************************)
(* C15: what is not a comment is kept                                      *)
(***************************************************************************)
\* the conversion of each comment of CompComments on its own
OwnConversion(c) ==
    CASE c = InlineSrc(SP, <<>>, <<>>, <<"a">>, SP)
            -> Guarded(HTML_OPEN \o <<"a">> \o HTML_CLOSE)
      [] c = InlineSrc(SP, RENDER_TOKEN, SP, <<"a">>, SP)
            -> HTML_OPEN \o <<"a">> \o HTML_CLOSE
      [] c = BlockSrc(SP, "\"", <<"n">>, <<"c">>)
            -> Guarded(HTML_OPEN \o <<"[", "n", "]", " ", "c">> \o HTML_CLOSE)
      [] c = BlockSrc(SP, "\"", RENDER_TOKEN,
                      <<"c">> \o Dashes(2) \o <<"d">>)
            -> HTML_OPEN \o <<"c", "-", " ", "-", "d">> \o HTML_CLOSE
      [] OTHER -> c

RECURSIVE SegmentWise(_, _)
\* the text s from index i on, with each comment of CompComments replaced
\* by its own conversion and every other character kept
SegmentWise(s, i) ==
    IF i > Len(s) THEN <<>>
    ELSE IF \E c \in CompComments : IsAt(s, i, c)
         THEN LET c == CHOOSE d \in CompComments : IsAt(s, i, d)
              IN OwnConversion(c) \o SegmentWise(s, i + Len(c))
         ELSE <<s[i]>> \o SegmentWise(s, i + 1)

\* C15: for a source made of comment-free segments that alternate with
\* complete comments, hidden, render or default in any mix, the returned
\* text is the same segments in the same order, alternating with the own
\* conversion of each comment; a hidden comment is kept as written.
C15_SegmentsKept ==
    (pc = "done" /\ source \in CompSources)
        => result = SegmentWise(source, 1)

\* a hidden block comment kept as written between a converted inline comment
\* and a segment
C15_Witness ==
    /\ pc = "done"
    /\ \E g \in Segments \ {<<>>} :
        /\ source = g \o InlineSrc(SP, <<>>, <<>>, <<"a">>, SP)
                    \o BlockSrc(SP, "\"", HIDE_TOKEN, <<"c">>) \o g
        /\ result = g \o Guarded(HTML_OPEN \o <<"a">> \o HTML_CLOSE)
                    \o BlockSrc(SP, "\"", HIDE_TOKEN, <<"c">>) \o g

(***************************************************************************)
(* C21: the length of an escaped text                                      *)
(***************************************************************************)
\* the number of occurrences of "--" in s that a scan from the left finds
\* without overlap
DisjointCount(s) == Cardinality({i \in 1..Len(s) : OccStart(s, i)})

\* C21: for a text t with n disjoint occurrences of "--", counted from the
\* left without overlap, escape_html_comment(t) is n characters longer
\* than t; with n = 0 it is t itself, and "----" (n = 2) goes from 4
\* characters to 6.
C21_EscapeLength ==
    epc = "done"
        => /\ Len(escaped) = Len(text) + DisjointCount(text)
           /\ DisjointCount(text) = 0 => escaped = text
           /\ text = Dashes(4)
                => (DisjointCount(text) = 2 /\ Len(escaped) = 6)

\* a run of five dashes, two disjoint occurrences, escaped to seven
\* characters
C21_Witness ==
    /\ epc = "done"
    /\ text = Dashes(5)
    /\ DisjointCount(text) = 2
    /\ Len(escaped) = 7

(***************************************************************************)
(* C22: spans do not nest                                                  *)
(***************************************************************************)
OUTER == <<"o", "u", "t", "e", "r">>

\* C22: a span ends at the first closing marker after its opening marker.
\* The source of the nesting test becomes the guarded comment of
\* "outer{% comment %}inner" followed by the second closing tag as plain
\* text; a default block whose content is a whole block comment is
\* converted up to the inner closing tag, the outer one left as text; a
\* default inline comment whose content holds "#}" is converted up to that
\* "#}", what follows left as text.
C22_NoNesting ==
    pc = "done"
        => /\ source = NestedBlockSource
                => result = Guarded(HTML_OPEN \o OUTER \o T_OPENER \o INNER
                                    \o HTML_CLOSE) \o T_CLOSER
           /\ \A c \in BlockCasesFor(source) :
                (/\ source = c.src
                 /\ IsDefaultNote(c.note)
                 /\ c.body = T_OPENER \o <<"b">> \o T_CLOSER)
                    => result =
                        Guarded(HtmlComment(NoteOf(c), T_OPENER \o <<"b">>))
                        \o c.p \o CloseTag(c.p)
           /\ \A c \in InlineCasesFor(source) :
                (/\ source = c.src
                 /\ c.marker = <<>>
                 /\ c.body = <<"a", " ">> \o INLINE_CLOSE \o <<" ", "b">>)
                    => result =
                        Guarded(HTML_OPEN \o <<"a">> \o HTML_CLOSE)
                        \o <<" ", "b">> \o c.tp \o INLINE_CLOSE

\* the nesting test's source returned with its last closing tag as text
C22_Witness ==
    /\ pc = "done"
    /\ source = NestedBlockSource
    /\ endswith(result, ENDVERBATIM_TAG \o T_CLOSER)
    /\ contains(result, OUTER \o T_OPENER \o INNER \o HTML_CLOSE)

(***************************************************************************)
(* C23: the two passes                                                     *)
(***************************************************************************)
\* C23: the text between the passes is the source with every block span
\* substituted and no inline span touched, and the returned text is the
\* inline substitution of that text, preprocess_template(source).  The
\* inline pass scans what the block pass emitted and the hidden blocks it
\* left in place: an inline comment inside a hidden block is converted, and
\* the source of the mixed test becomes three guarded comments.
C23_BlockThenInline ==
    /\ pc = "inline_pass" => result = BlockSub(source, 1)
    /\ pc = "done"
        => /\ result = InlineSub(BlockSub(source, 1), 1)
           /\ result = preprocess_template(source)
           /\ source = MixedSource
                => result =
                    Guarded(HTML_OPEN \o <<"i", "n", "l", "i", "n", "e">>
                            \o HTML_CLOSE)
                    \o Guarded(HTML_OPEN \o <<"b", "l", "o", "c", "k">>
                               \o HTML_CLOSE)
                    \o Guarded(HTML_OPEN
                               \o <<"i", "n", "l", "i", "n", "e", "2">>
                               \o HTML_CLOSE)
           /\ \A c \in BlockCasesFor(source) :
                (/\ source = c.src
                 /\ c.note # None
                 /\ startswith(c.note, HIDE_TOKEN)
                 /\ c.body = SpanBody)
                    => result =
                        OpenTag(c.p, c.q, c.note) \o c.p
                        \o Guarded(HTML_OPEN \o <<"b">> \o HTML_CLOSE)
                        \o c.p \o CloseTag(c.p)

\* an inline comment that holds a whole block comment, returned with the
\* block converted first and the inline comment converted around it
C23_Witness ==
    /\ pc = "done"
    /\ source = InlineSrc(SP, <<>>, <<>>,
                          T_OPENER \o <<"b">> \o T_CLOSER, SP)
    /\ result # InlineSub(source, 1)
    /\ result = Guarded(HTML_OPEN
                        \o Guarded(<<"<", "!", "-", " ", "-", " ", "b", " ",
                                     "-", " ", "-", ">">>)
                        \o HTML_CLOSE)

(***************************************************************************)
(* C24: the transform applied to its own output                            *)
(***************************************************************************)
DELIMS == {INLINE_OPEN, INLINE_CLOSE, TAG_OPEN, TAG_CLOSE}

RECURSIVE DelimTokens(_, _)
\* the comment delimiters of s from index i on, in order, each with its
\* index
DelimTokens(s, i) ==
    IF i >= Len(s) THEN <<>>
    ELSE IF SubSeq(s, i, i + 1) \in DELIMS
         THEN <<[at |-> i, d |-> SubSeq(s, i, i + 1)]>>
              \o DelimTokens(s, i + 2)
         ELSE DelimTokens(s, i + 1)

RECURSIVE PairedFrom(_, _, _)
\* the delimiters tk of s from the k-th on are those of complete comments,
\* one after the other: "{#" then "#}", or an opening tag then a closing
\* tag; no comment holds a delimiter and no delimiter stands outside a
\* comment
PairedFrom(s, tk, k) ==
    IF k > Len(tk) THEN TRUE
    ELSE IF tk[k].d = INLINE_OPEN
         THEN /\ k + 1 <= Len(tk)
              /\ tk[k + 1].d = INLINE_CLOSE
              /\ PairedFrom(s, tk, k + 2)
    ELSE /\ k + 3 <= Len(tk)
         /\ IsOpenTag(s, tk[k].at, tk[k + 1].at + 2)
         /\ IsCloseTag(s, tk[k + 2].at, tk[k + 3].at + 2)
         /\ PairedFrom(s, tk, k + 4)

WellDelimited(s) == PairedFrom(s, DelimTokens(s, 1), 1)

Unguarded(r) ==
    IF startswith(r, VERBATIM_TAG) /\ endswith(r, ENDVERBATIM_TAG)
    THEN SubSeq(r, Len(VERBATIM_TAG) + 1, Len(r) - Len(ENDVERBATIM_TAG))
    ELSE r

\* the text between "<!-- " and " -->" of the HTML comment h
CommentText(h) == SubSeq(h, Len(HTML_OPEN) + 1, Len(h) - Len(HTML_CLOSE))

IsHtmlComment(h) ==
    /\ Len(h) >= Len(HTML_OPEN) + Len(HTML_CLOSE)
    /\ startswith(h, HTML_OPEN)
    /\ endswith(h, HTML_CLOSE)

\* C25: the HTML comment emitted for a comment that is not hidden, guarded
\* or not, holds no "--" between its "<!-- " and its " -->".
C25_NoDashDashInside ==
    pc = "done"
        => /\ \A c \in InlineCasesFor(source) :
                (source = c.src /\ c.body \in PlainBodies /\ result # source)
                    => /\ IsHtmlComment(Unguarded(result))
                       /\ ~contains(CommentText(Unguarded(result)), DASHDASH)
           /\ \A c \in BlockCasesFor(source) :
                (source = c.src /\ c.body \in PlainBodies /\ result # source)
                    => /\ IsHtmlComment(Unguarded(result))
                       /\ ~contains(CommentText(Unguarded(result)), DASHDASH)

(***************************************************************************)
(* C26: a block comment without its closing tag                            *)
(***************************************************************************)
HasOpenTag(s) ==
    \E i \in 1..Len(s) : \E e \in (i + 4)..(Len(s) + 1) : IsOpenTag(s, i, e)

\* C26: an opening tag with no closing tag after it is not a match: a
\* source that holds an opening tag and no closing tag after an opening
\* tag is left untouched by the block pass, and is returned untouched when
\* it holds no inline span for the inline pass to convert; no error is
\* raised.
C26_Unterminated ==
    (HasOpenTag(source) /\ ~HasBlockSpan(source))
        => /\ pc # "error"
           /\ pc = "inline_pass" => result = source
           /\ (pc = "done" /\ ~HasInlineSpan(source)) => result = source

\* an inline comment that holds an opening tag without its closing tag,
\* as the block pass leaves it
C26_Witness ==
    /\ pc = "inline_pass"
    /\ source = InlineSrc(SP, <<>>, <<>>, T_OPENER \o <<"b">>, SP)
    /\ HasOpenTag(source) /\ ~HasBlockSpan(source)
    /\ result = source

(***************************************************************************)
(* C27: the loader keeps nothing between calls                             *)
(***************************************************************************)
\* what a get_contents call returns and raises, from the file and the two
\* settings alone
Outcome(o, st) ==
    IF o.open = "FileNotFoundError"
    THEN [contents |-> None, raised |-> "TemplateDoesNotExist"]
    ELSE IF o.open # "ok" THEN [contents |-> None, raised |-> o.open]
    ELSE IF st["DEBUG"] = "True" /\ st["RENDER_COMMENTS_ENABLED"] # "False"
         THEN [contents |-> preprocess_template(o.text), raised |-> "none"]
    ELSE [contents |-> o.text, raised |-> "none"]

\* C27: in every sequence of setting changes and get_contents calls, what a
\* call returns or raises is given by the file and the values of DEBUG and
\* RENDER_COMMENTS_ENABLED at the moment of that call, whatever the earlier
\* calls returned and whatever the settings were before; a setting change
\* by itself changes nothing that was returned.
C27_NoCaching ==
    [][/\ nloads' = nloads + 1
            => /\ contents' = Outcome(origin, settings).contents
               /\ raised' = Outcome(origin, settings).raised
       /\ nloads' = nloads
            => contents' = contents /\ raised' = raised]_vars

\* two calls on the same file: the first one converted it, the second one,
\* after a setting change, returned it as it is
C27_Witness ==
    /\ nloads = 2
    /\ transforms = 1
    /\ origin.open = "ok"
    /\ contents = origin.text
    /\ preprocess_template(origin.text) # origin.text
    /\ ~ShouldPreprocess(settings)

(***************************************************************************)
(* C28: the matches of one pass                                            *)
(***************************************************************************)
\* the spans sp, each from start up to stop - 1, come from left to right
\* and share no character
Disjoint(sp) ==
    /\ \A k \in 1..Len(sp) : sp[k].start < sp[k].stop
    /\ \A k \in 1..(Len(sp) - 1) : sp[k].stop <= sp[k + 1].start

\* C28: the matches of a pass come from left to right and share no
\* character, and the text put out by a conversion is not scanned again
\* by the same pass: after the block pass, the nesting test's source is
\* the guarded comment of "outer{% comment %}inner" followed by the second
\* closing tag, the opening tag inside the output not matched again, and
\* the source of the test of two block comments is two guarded comments
\* around "text".
C28_OnePassNoRescan ==
    /\ pc = "block_pass" => Disjoint(BlockSpans(source, 1))
    /\ pc = "inline_pass"
        => /\ Disjoint(InlineSpans(result, 1))
           /\ source = NestedBlockSource
                => result = Guarded(HTML_OPEN \o OUTER \o T_OPENER \o INNER
                                    \o HTML_CLOSE) \o T_CLOSER
           /\ source = TwoBlocksSource
                => result =
                    Guarded(HTML_OPEN \o <<"o", "n", "e">> \o HTML_CLOSE)
                    \o <<"t", "e", "x", "t">>
                    \o Guarded(HTML_OPEN \o <<"t", "w", "o">> \o HTML_CLOSE)
           /\ \A c \in BlockCasesFor(source) :
                (/\ source = c.src
                 /\ IsDefaultNote(c.note)
                 /\ c.body = T_OPENER \o <<"b">> \o T_CLOSER)
                    => /\ Len(BlockSpans(source, 1)) = 1
                       /\ HasBlockSpan(result)

\* the nesting test's source after the block pass: the text put out holds
\* an opening tag and a closing tag after it, left as they are
C28_Witness ==
    /\ pc = "inline_pass"
    /\ source = NestedBlockSource
    /\ Len(BlockSpans(source, 1)) = 1
    /\ HasBlockSpan(result)

(***************************************************************************)
(* C29, C30: annotations with whitespace before the marker, and empty      *)
(***************************************************************************)
\* C29: the markers are looked for in the annotation as captured, without
\* trimming: a block whose annotation has whitespace before !hide or
\* !render is converted as a default block, the guard pair around the HTML
\* comment of its content, with the whole annotation, whitespace and
\* marker included, as the bracketed note.  It is the result of the block
\* pass, and the returned text when the source holds no inline opening
\* marker.
C29_UntrimmedAnnotation ==
    (pc = "inline_pass"
     \/ (pc = "done" /\ ~contains(source, INLINE_OPEN)))
        => \A c \in BlockCasesFor(source) :
            (/\ source = c.src
             /\ c.note # None /\ c.note # <<>>
             /\ c.note[1] \in WS
             /\ \/ startswith(lstrip(c.note), HIDE_TOKEN)
                \/ startswith(lstrip(c.note), RENDER_TOKEN)
             /\ ~HasCloseTag(c.body))
                => result =
                    Guarded(HTML_OPEN \o <<"[">> \o c.note \o <<"]", " ">>
                            \o escape_html_comment(strip(c.p \o c.body \o c.p))
                            \o HTML_CLOSE)

\* a block annotated " !hide", converted with "[ !hide]" as its note
C29_Witness ==
    /\ pc = "done"
    /\ source = BlockSrc(SP, "\"", SP \o HIDE_TOKEN, <<"a">>)
    /\ result = Guarded(HTML_OPEN \o <<"[", " ">> \o HIDE_TOKEN
                        \o <<"]", " ", "a">> \o HTML_CLOSE)

\* C30: a block comment with a quoted, empty annotation is converted to
\* the same text as the same block without annotation: the guard pair
\* around the HTML comment of the content, without a bracketed note.  It is
\* the result of the block pass, and the returned text when the source
\* holds no inline opening marker.
C30_EmptyAnnotation ==
    (pc = "inline_pass"
     \/ (pc = "done" /\ ~contains(source, INLINE_OPEN)))
        => \A c \in BlockCasesFor(source) :
            (source = c.src /\ c.note = <<>> /\ ~HasCloseTag(c.body))
                => /\ result = BlockSub(BlockSrc(c.p, c.q, None, c.body), 1)
                   /\ result =
                        Guarded(HTML_OPEN
                                \o escape_html_comment(
                                       strip(c.p \o c.body \o c.p))
                                \o HTML_CLOSE)

\* a block annotated "" with the content a, returned as the guarded
\* comment of a
C30_Witness ==
    /\ pc = "done"
    /\ source = BlockSrc(SP, "\"", <<>>, <<"a">>)
    /\ source # BlockSrc(SP, "\"", None, <<"a">>)
    /\ result = Guarded(HTML_OPEN \o <<"a">> \o HTML_CLOSE)

====
